---- MODULE Spec2Model ----
(***************************************************************************)
(* A model of traders/fsm.py: State, Transition and FiniteStateMachine,    *)
(* with the concrete states of tests/test_fsm.py as the state instances.   *)
(*                                                                         *)
(* Python objects are denoted by strings: a state instance by its variable *)
(* name ("counting", "limiting", ...), an event token by its text, and the *)
(* other values handed to the constructors by "None", "2", "update" (the   *)
(* three-parameter function of test_counting_fsm) and "lambda2" (a         *)
(* callable that takes two parameters).                                    *)
(***************************************************************************)
EXTENDS Integers, Sequences, FiniteSets, Bags, TLC

\* ---------------------------------------------------------------- bounds

\* The largest LimitingState.limit tried for the counting machine.
MaxLimit == 10

\* The largest LimitingState.limit tried when machines are assembled freely.
MaxSpecLimit == 1

\* How far past the limit the counter of CountingState may be driven.
MaxExtra == 2

\* The largest number of transitions added over all machines.
MaxAdds == 2

\* ------------------------------------------------------- Python objects

\* The instances of the leaf State classes of the tests.
Leaf == {"counting", "limiting", "start_state", "start_state2", "end_state"}

\* The FiniteStateMachine instances: counting_fsm holds leaf states only,
\* outer_fsm may hold counting_fsm as one of its states.
Machines == {"counting_fsm", "outer_fsm"}

\* isinstance(x, State)
State == Leaf \cup Machines

\* The event tokens the states of the tests declare.
Tokens == {"started", "ended", "counted", "over", "under"}

\* The callables: update of test_counting_fsm and a two-parameter callable.
Callables == {"update", "lambda2"}

\* Every value handed to a constructor or a method in this model.
PyValues == State \cup Tokens \cup Callables \cup {"None", "2"}

\* type(x), as far as the code looks at it
ClassOf(x) ==
    CASE x = "counting" -> "CountingState"
      [] x = "limiting" -> "LimitingState"
      [] x \in {"start_state", "start_state2"} -> "StartState"
      [] x = "end_state" -> "EndState"
      [] x \in Machines -> "FiniteStateMachine"
      [] x \in Tokens -> "str"
      [] x \in Callables -> "function"
      [] x = "2" -> "int"
      [] OTHER -> "NoneType"

\* State.name, set by each class's __init__
NameOf(s) ==
    CASE ClassOf(s) = "CountingState" -> "Counting"
      [] ClassOf(s) = "LimitingState" -> "Limiting"
      [] ClassOf(s) = "StartState" -> "Starting"
      [] ClassOf(s) = "EndState" -> "Ending"
      [] s = "counting_fsm" -> "Counting to 10"
      [] OTHER -> "Outer"

\* The events property of the leaf states: a tuple, in declaration order.
LeafEvents(s) ==
    CASE ClassOf(s) = "CountingState" -> <<"counted">>
      [] ClassOf(s) = "LimitingState" -> <<"over", "under">>
      [] ClassOf(s) = "StartState" -> <<"started">>
      [] OTHER -> <<"ended">>

\* callable(x)
callable(x) == x \in Callables

\* The number of positional parameters a callable takes.
Arity(f) == IF f = "update" THEN 3 ELSE 2

VARIABLES
    start_state,   \* FiniteStateMachine.start_state, per machine
    transitions,   \* FiniteStateMachine._transitions, per machine
    value,         \* the value attribute of each state, -1 where it has none
    limit,         \* LimitingState.limit
    stack,         \* the frames of the run() calls in progress, outermost first
    obj,           \* the Transition object under test
    last,          \* the last call made by the client and its outcome
    result,        \* the last run() that returned to the client
    invoked        \* the update calls made by the last apply()

vars == <<start_state, transitions, value, limit, stack, obj, last, result,
          invoked>>

\* ---------------------------------------------------------- Transition

\* The absent transition (Python's None where a Transition is expected).
NoTransition ==
    [current_state |-> "None", event |-> "None", next_state |-> "None",
     update |-> "None"]

\* The Transition object with the given attributes.
Transition(current_state, event, next_state, update) ==
    [current_state |-> current_state, event |-> event,
     next_state |-> next_state, update |-> update]

\* A faulty variant of __init__ that omits the check of next_state.
NoNextStateCheck(current_state, event, next_state, update) ==
    IF ~(current_state \in State)
    THEN [self |-> NoTransition, raised |-> "TypeError"]
    ELSE IF update # "None" /\ ~callable(update)
    THEN [self |-> NoTransition, raised |-> "TypeError"]
    ELSE [self |-> Transition(current_state, event, next_state, update),
          raised |-> "None"]

\* A faulty variant of __init__ that demands a three-parameter update.
ArityChecked(current_state, event, next_state, update) ==
    IF ~(current_state \in State) \/ ~(next_state \in State)
    THEN [self |-> NoTransition, raised |-> "TypeError"]
    ELSE IF update # "None" /\ ~(callable(update) /\ Arity(update) = 3)
    THEN [self |-> NoTransition, raised |-> "TypeError"]
    ELSE [self |-> Transition(current_state, event, next_state, update),
          raised |-> "None"]

\* Transition.__init__: the new object, or the error raised.
TransitionInit(current_state, event, next_state, update) ==
    IF ~(current_state \in State)
    THEN [self |-> NoTransition, raised |-> "TypeError"]
    ELSE IF ~(next_state \in State)
    THEN [self |-> NoTransition, raised |-> "TypeError"]
    ELSE IF update # "None" /\ ~callable(update)
    THEN [self |-> NoTransition, raised |-> "TypeError"]
    ELSE [self |-> Transition(current_state, event, next_state, update),
          raised |-> "None"]

\* A faulty variant of match: states compared by name, not by identity.
MatchByName(t, current_state, event) ==
    /\ t.current_state \in State
    /\ current_state \in State
    /\ NameOf(t.current_state) = NameOf(current_state)
    /\ t.event = event

\* Transition.match: State defines no __eq__, so == on states is identity.
match(t, current_state, event) ==
    t.current_state = current_state /\ t.event = event

\* The update function of test_counting_fsm, called as update(a, e, b):
\* b.value = a.value. Reading a missing attribute raises AttributeError.
\* calls lists the arguments of the call.
UpdateCall(a, e, b, val) ==
    IF val[a] = -1
    THEN [value |-> val, raised |-> "AttributeError", calls |-> <<<<a, e, b>>>>]
    ELSE [value |-> [val EXCEPT ![b] = val[a]], raised |-> "None",
          calls |-> <<<<a, e, b>>>>]

\* A faulty variant of apply: an absent update copies the data as well.
ApplyCopyByDefault(t, val) ==
    IF t.update # "None" /\ Arity(t.update) # 3
    THEN [value |-> val, raised |-> "TypeError",
          calls |-> <<<<t.current_state, t.event, t.next_state>>>>]
    ELSE [value |-> [val EXCEPT ![t.next_state] = val[t.current_state]],
          raised |-> "None",
          calls |-> IF t.update = "None" THEN <<>>
                    ELSE <<<<t.current_state, t.event, t.next_state>>>>]

\* A faulty variant of apply: update is handed the states the other way
\* round, as update(next_state, event, current_state).
ApplySwapped(t, val) ==
    IF t.update = "None"
    THEN [value |-> val, raised |-> "None", calls |-> <<>>]
    ELSE IF Arity(t.update) # 3
    THEN [value |-> val, raised |-> "TypeError",
          calls |-> <<<<t.next_state, t.event, t.current_state>>>>]
    ELSE UpdateCall(t.next_state, t.event, t.current_state, val)

\* Transition.apply: the state data after the call, the error raised, if
\* any, and the update calls made, each with its arguments; apply returns
\* t.next_state when nothing is raised.
apply(t, val) ==
    IF t.update = "None"
    THEN [value |-> val, raised |-> "None", calls |-> <<>>]
    ELSE IF Arity(t.update) # 3
    THEN [value |-> val, raised |-> "TypeError",
          calls |-> <<<<t.current_state, t.event, t.next_state>>>>]
    ELSE UpdateCall(t.current_state, t.event, t.next_state, val)

\* -------------------------------------------------- FiniteStateMachine

\* The first element of a sequence of transitions, or None: next(it, None).
FirstOrNone(ts) == IF ts = <<>> THEN NoTransition ELSE Head(ts)

\* A faulty variant of transition: the transition added last wins.
LastMatch(ts, state, event) ==
    LET matches == SelectSeq(ts, LAMBDA t : match(t, state, event))
    IN  IF matches = <<>> THEN NoTransition ELSE matches[Len(matches)]

\* A faulty variant of transition: only the transition added first is tried.
HeadMatch(ts, state, event) ==
    IF ts # <<>> /\ match(Head(ts), state, event) THEN Head(ts) ELSE NoTransition

\* FiniteStateMachine.transition on the transition list ts: the first
\* transition, in insertion order, that matches (state, event), or None.
transition(ts, state, event) ==
    FirstOrNone(SelectSeq(ts, LAMBDA t : match(t, state, event)))

\* The states a run can enter: start and, repeatedly, the next_state of
\* every transition that leaves a state already collected.
RECURSIVE ReachableFrom(_, _)
ReachableFrom(S, ts) ==
    LET more == S \cup {ts[i].next_state : i \in {j \in 1..Len(ts) : ts[j].current_state \in S}}
    IN  IF more = S THEN S ELSE ReachableFrom(more, ts)

\* A variant of the set built by events: the states reachable from start.
ReachableStates(start, ts) == ReachableFrom({start}, ts)

\* A faulty variant of the set built by events: next_state is left out.
StatesNoNext(start, ts) ==
    {start} \cup {ts[i].current_state : i \in 1..Len(ts)}

\* The set built by events: start_state, then every current_state and every
\* next_state of the transition list; a set keeps one of each instance.
StatesOf(start, ts) ==
    {start} \cup {ts[i].current_state : i \in 1..Len(ts)}
            \cup {ts[i].next_state : i \in 1..Len(ts)}

\* The orders in which a set may be iterated: its permutations as sequences.
RECURSIVE IterationOrders(_)
IterationOrders(S) ==
    IF S = {} THEN {<<>>}
    ELSE UNION {{<<x>> \o p : p \in IterationOrders(S \ {x})} : x \in S}

\* The concatenation of a sequence of sequences.
RECURSIVE Chain(_)
Chain(ss) == IF ss = <<>> THEN <<>> ELSE Head(ss) \o Chain(Tail(ss))

\* A faulty variant of events: the events that have a transition are kept.
RECURSIVE EventsKeepConsumed(_, _, _, _)
EventsKeepConsumed(m, starts, tss, order) ==
    LET state_events(s) == IF s \in Leaf THEN LeafEvents(s)
                           ELSE EventsKeepConsumed(s, starts, tss, order)
    IN  Chain([i \in 1..Len(order[m]) |-> state_events(order[m][i])])

\* A faulty variant of events: the state iterated first is skipped.
RECURSIVE EventsSkipFirst(_, _, _, _)
EventsSkipFirst(m, starts, tss, order) ==
    LET state_events(s) == IF s \in Leaf THEN LeafEvents(s)
                           ELSE EventsSkipFirst(s, starts, tss, order)
        unmatched(s) == SelectSeq(state_events(s),
                            LAMBDA e : transition(tss[m], s, e) = NoTransition)
    IN  Chain([i \in 1..Len(order[m]) - 1 |-> unmatched(order[m][i + 1])])

\* A sequence without the later occurrences of its elements.
RECURSIVE Distinct(_)
Distinct(v) ==
    IF v = <<>> THEN <<>>
    ELSE LET r == Distinct(SubSeq(v, 1, Len(v) - 1))
         IN  IF \E i \in 1..Len(r) : r[i] = v[Len(v)] THEN r
             ELSE Append(r, v[Len(v)])

\* A faulty variant of events: a token is kept once, whatever states
\* declare it.
RECURSIVE EventsDistinct(_, _, _, _)
EventsDistinct(m, starts, tss, order) ==
    LET state_events(s) == IF s \in Leaf THEN LeafEvents(s)
                           ELSE EventsDistinct(s, starts, tss, order)
        unmatched(s) == SelectSeq(state_events(s),
                            LAMBDA e : transition(tss[m], s, e) = NoTransition)
    IN  Distinct(Chain([i \in 1..Len(order[m]) |-> unmatched(order[m][i])]))

\* A faulty variant of events: the transition added last is not yet taken
\* into account.
RECURSIVE EventsStale(_, _, _, _)
EventsStale(m, starts, tss, order) ==
    LET known == IF tss[m] = <<>> THEN <<>> ELSE SubSeq(tss[m], 1, Len(tss[m]) - 1)
        state_events(s) == IF s \in Leaf THEN LeafEvents(s)
                           ELSE EventsStale(s, starts, tss, order)
        unmatched(s) == SelectSeq(state_events(s),
                            LAMBDA e : transition(known, s, e) = NoTransition)
    IN  Chain([i \in 1..Len(order[m]) |-> unmatched(order[m][i])])

\* A sequence read from its last element to its first.
Reversed(seq) == [i \in 1..Len(seq) |-> seq[Len(seq) + 1 - i]]

\* A faulty variant of events: each state's events are taken last to first.
RECURSIVE EventsLastFirst(_, _, _, _)
EventsLastFirst(m, starts, tss, order) ==
    LET state_events(s) == IF s \in Leaf THEN Reversed(LeafEvents(s))
                           ELSE EventsLastFirst(s, starts, tss, order)
        unmatched(s) == SelectSeq(state_events(s),
                            LAMBDA e : transition(tss[m], s, e) = NoTransition)
    IN  Chain([i \in 1..Len(order[m]) |-> unmatched(order[m][i])])

\* FiniteStateMachine.events of machine m, given the transition lists and
\* start states of all machines and, for every machine, the order in which
\* its set of states is iterated. A state that is a machine contributes its
\* own derived events.
RECURSIVE events(_, _, _, _)
events(m, starts, tss, order) ==
    LET state_events(s) == IF s \in Leaf THEN LeafEvents(s)
                           ELSE events(s, starts, tss, order)
        unmatched(s) == SelectSeq(state_events(s),
                            LAMBDA e : transition(tss[m], s, e) = NoTransition)
    IN  Chain([i \in 1..Len(order[m]) |-> unmatched(order[m][i])])

\* Every assignment of an iteration order to the set of states of each machine.
AllOrders(starts, tss) ==
    {[m \in Machines |-> IF m = "counting_fsm" THEN a ELSE b] :
        a \in IterationOrders(StatesOf(starts["counting_fsm"], tss["counting_fsm"])),
        b \in IterationOrders(StatesOf(starts["outer_fsm"], tss["outer_fsm"]))}

\* The tuples an access of m.events may return, over all iteration orders.
EventsResults(m, starts, tss) ==
    {events(m, starts, tss, o) : o \in AllOrders(starts, tss)}

\* A faulty variant of the run methods: LimitingState compares with >=.
StateRunGe(s, val, lim) ==
    CASE ClassOf(s) = "CountingState" ->
            [event |-> "counted", value |-> [val EXCEPT ![s] = val[s] + 1]]
      [] ClassOf(s) = "LimitingState" ->
            [event |-> IF val[s] >= lim THEN "over" ELSE "under", value |-> val]
      [] ClassOf(s) = "StartState" -> [event |-> "started", value |-> val]
      [] OTHER -> [event |-> "ended", value |-> val]

\* The run methods of the leaf states of the tests: the event returned and
\* the state data after the call.
StateRun(s, val, lim) ==
    CASE ClassOf(s) = "CountingState" ->
            [event |-> "counted", value |-> [val EXCEPT ![s] = val[s] + 1]]
      [] ClassOf(s) = "LimitingState" ->
            [event |-> IF val[s] > lim THEN "over" ELSE "under", value |-> val]
      [] ClassOf(s) = "StartState" -> [event |-> "started", value |-> val]
      [] OTHER -> [event |-> "ended", value |-> val]

\* A faulty variant of add: the new transition is put in front.
AddInFront(ts, x) ==
    IF x.cls # "Transition"
    THEN [transitions |-> ts, raised |-> "TypeError"]
    ELSE [transitions |-> <<x.self>> \o ts, raised |-> "None"]

\* FiniteStateMachine.add on the transition list ts: the list after the
\* call and the error raised, if any. x.cls is the class of the argument.
add(ts, x) ==
    IF x.cls # "Transition"
    THEN [transitions |-> ts, raised |-> "TypeError"]
    ELSE [transitions |-> Append(ts, x.self), raised |-> "None"]

\* A faulty variant of the loop's exit test: leave on a match.
BreakOnMatch(t) == t # NoTransition

\* A faulty variant of the loop's exit test: the loop is left after one round.
BreakAlways(t) == TRUE

\* The exit test of the loop of run: `if transition is None: break`.
Break(t) == t = NoTransition

\* The frame of a call of m.run() as the loop is entered.
Frame(m, start) ==
    [self |-> m, current_state |-> start, event |-> "None",
     transition |-> NoTransition, pc |-> "L162"]

\* A faulty variant of the return: the caller runs its state again.
ReturnAndRerun(stk, e) ==
    IF Len(stk) = 1 THEN <<>>
    ELSE LET rest == SubSeq(stk, 1, Len(stk) - 1)
         IN  [rest EXCEPT ![Len(rest)] = [@ EXCEPT !.event = e, !.pc = "L162"]]

\* `return event`: the frame of the call is dropped and, in the frame of
\* the run that called it, current_state.run() yields e.
ReturnTo(stk, e) ==
    IF Len(stk) = 1 THEN <<>>
    ELSE LET rest == SubSeq(stk, 1, Len(stk) - 1)
         IN  [rest EXCEPT ![Len(rest)] = [@ EXCEPT !.event = e, !.pc = "L163"]]

\* ---------------------------------------------------------------- state

\* The record of a call by the client: the method, the object it is called
\* on, its arguments, the value returned (a tuple), the error raised and the
\* state data as the call was made.
Call(op, self, args, val, raised, pre) ==
    [op |-> op, self |-> self, args |-> args, val |-> val,
     raised |-> raised, pre |-> pre]

NoCall == Call("none", "None", <<>>, <<>>, "None", [s \in State |-> -1])

\* What the client holds of the last run() that returned: the machine, the
\* event returned and the state that emitted it; before any run, nothing.
NoResult == [self |-> "None", state |-> "None", val |-> "None"]

\* The state data after the constructors of the tests: CountingState() and
\* LimitingState(counting.value, limit); the other states hold no value.
InitialValue ==
    [s \in State |-> IF s \in {"counting", "limiting"} THEN 0 ELSE -1]

\* The arguments of the Transition constructor the client adds to m.
Menu(m) ==
    IF m = "counting_fsm"
    THEN {<<"counting", "counted", "limiting", "update">>,
          <<"limiting", "under", "counting", "None">>,
          <<"counting", "counted", "start_state2", "None">>,
          <<"start_state", "started", "start_state", "None">>,
          <<"limiting", "over", "start_state2", "lambda2">>}
    ELSE {<<"counting_fsm", "over", "end_state", "None">>,
          <<"end_state", "ended", "counting_fsm", "None">>}

\* The state a machine may be constructed on.
StartStates(m) ==
    IF m = "counting_fsm" THEN {"counting", "start_state"}
    ELSE {"counting_fsm"}

\* The counting machine of test_counting_fsm.
CountingTransitions ==
    <<Transition("counting", "counted", "limiting", "update"),
      Transition("limiting", "under", "counting", "None")>>

TotalAdds == Len(transitions["counting_fsm"]) + Len(transitions["outer_fsm"])

Top == stack[Len(stack)]

\* The counter may still be incremented.
BelowCap == value["counting"] < limit + MaxExtra

Init ==
    /\ start_state \in {f \in [Machines -> State] : \A m \in Machines : f[m] \in StartStates(m)}
    /\ transitions = [m \in Machines |-> <<>>]
    /\ value = InitialValue
    /\ limit \in 0..MaxSpecLimit
    /\ stack = <<>>
    /\ obj = NoTransition
    /\ last = NoCall
    /\ result = NoResult
    /\ invoked = <<>>

\* ------------------------------------------------------------- actions

\* The client calls m.add(Transition(...)).
AddTransition(m) ==
    /\ stack = <<>>
    /\ TotalAdds < MaxAdds
    /\ \E a \in Menu(m) :
         LET made == TransitionInit(a[1], a[2], a[3], a[4])
             r == add(transitions[m], [cls |-> "Transition", self |-> made.self])
         IN  /\ made.raised = "None"
             /\ transitions' = [transitions EXCEPT ![m] = r.transitions]
             /\ last' = Call("add", m, a, <<>>, r.raised, value)
    /\ UNCHANGED <<start_state, value, limit, stack, obj, result, invoked>>

\* The client calls m.add(x) with an x that is no Transition.
AddOther(m) ==
    /\ stack = <<>>
    /\ \E x \in {"None", "2"} :
         LET r == add(transitions[m], [cls |-> ClassOf(x), self |-> NoTransition])
         IN  /\ transitions' = [transitions EXCEPT ![m] = r.transitions]
             /\ last' = Call("add", m, <<x>>, <<>>, r.raised, value)
    /\ UNCHANGED <<start_state, value, limit, stack, obj, result, invoked>>

\* The client reads m.events.
EventsRead(m) ==
    /\ stack = <<>>
    /\ \E v \in EventsResults(m, start_state, transitions) :
         last' = Call("events", m, <<>>, v, "None", value)
    /\ UNCHANGED <<start_state, transitions, value, limit, stack, obj, result, invoked>>

\* A faulty variant of the call of run: the state data is reset first.
RunCallReset(m) ==
    /\ stack = <<>>
    /\ BelowCap
    /\ stack' = <<Frame(m, start_state[m])>>
    /\ value' = InitialValue
    /\ last' = Call("run", m, <<>>, <<>>, "None", value)
    /\ UNCHANGED <<start_state, transitions, limit, obj, result, invoked>>

\* The client calls m.run(): current_state = self.start_state.
RunCall(m) ==
    /\ stack = <<>>
    /\ BelowCap
    /\ stack' = <<Frame(m, start_state[m])>>
    /\ last' = Call("run", m, <<>>, <<>>, "None", value)
    /\ UNCHANGED <<start_state, transitions, value, limit, obj, result, invoked>>

\* event = current_state.run(), current_state a leaf state.
RunLeaf ==
    /\ stack # <<>>
    /\ Top.pc = "L162"
    /\ Top.current_state \in Leaf
    /\ ClassOf(Top.current_state) = "CountingState" => BelowCap
    /\ LET r == StateRun(Top.current_state, value, limit)
       IN  /\ value' = r.value
           /\ stack' = [stack EXCEPT ![Len(stack)] =
                            [@ EXCEPT !.event = r.event, !.pc = "L163"]]
    /\ UNCHANGED <<start_state, transitions, limit, obj, last, result, invoked>>

\* event = current_state.run(), current_state a machine: its run is entered.
RunNested ==
    /\ stack # <<>>
    /\ Top.pc = "L162"
    /\ Top.current_state \in Machines
    /\ stack' = Append(stack, Frame(Top.current_state, start_state[Top.current_state]))
    /\ UNCHANGED <<start_state, transitions, value, limit, obj, last, result, invoked>>

\* transition = self.transition(current_state, event), and one is found.
LookupFound ==
    /\ stack # <<>>
    /\ Top.pc = "L163"
    /\ LET t == transition(transitions[Top.self], Top.current_state, Top.event)
       IN  /\ ~Break(t)
           /\ stack' = [stack EXCEPT ![Len(stack)] =
                            [@ EXCEPT !.transition = t, !.pc = "L166"]]
    /\ UNCHANGED <<start_state, transitions, value, limit, obj, last, result, invoked>>

\* transition = self.transition(current_state, event) is None: break, and
\* return event.
LookupNone ==
    /\ stack # <<>>
    /\ Top.pc = "L163"
    /\ LET t == transition(transitions[Top.self], Top.current_state, Top.event)
       IN  /\ Break(t)
           /\ stack' = ReturnTo(stack, Top.event)
           /\ last' = IF Len(stack) = 1 THEN [last EXCEPT !.val = <<Top.event>>]
                      ELSE last
           /\ result' = IF Len(stack) = 1
                        THEN [self |-> Top.self, state |-> Top.current_state,
                              val |-> Top.event]
                        ELSE result
    /\ UNCHANGED <<start_state, transitions, value, limit, obj, invoked>>

\* current_state = transition.apply()
Apply ==
    /\ stack # <<>>
    /\ Top.pc = "L166"
    /\ LET r == apply(Top.transition, value)
       IN  /\ r.raised = "None"
           /\ value' = r.value
           /\ invoked' = r.calls
           /\ stack' = [stack EXCEPT ![Len(stack)] =
                            [@ EXCEPT !.current_state = Top.transition.next_state,
                                      !.pc = "L162"]]
    /\ UNCHANGED <<start_state, transitions, limit, obj, last, result>>

\* transition.apply() raises: the error leaves every run in progress.
ApplyRaises ==
    /\ stack # <<>>
    /\ Top.pc = "L166"
    /\ LET r == apply(Top.transition, value)
       IN  /\ r.raised # "None"
           /\ value' = r.value
           /\ invoked' = r.calls
           /\ stack' = <<>>
           /\ last' = [last EXCEPT !.raised = r.raised]
    /\ UNCHANGED <<start_state, transitions, limit, obj, result>>

RunStep == RunLeaf \/ RunNested \/ LookupFound \/ LookupNone \/ Apply \/ ApplyRaises

Next ==
    \/ \E m \in Machines : AddTransition(m)
    \/ \E m \in Machines : AddOther(m)
    \/ \E m \in Machines : EventsRead(m)
    \/ \E m \in Machines : RunCall(m)
    \/ RunLeaf
    \/ RunNested
    \/ LookupFound
    \/ LookupNone
    \/ Apply
    \/ ApplyRaises

Spec == Init /\ [][Next]_vars

\* ------------------------------------------------- the counting machine

\* The state after lines 125-136 of test_counting_fsm, for each limit, with
\* outer_fsm constructed on counting_fsm and left without transitions.
InitCounting ==
    /\ start_state = [m \in Machines |-> IF m = "counting_fsm" THEN "counting"
                                         ELSE "counting_fsm"]
    /\ transitions = [m \in Machines |-> IF m = "counting_fsm"
                                         THEN CountingTransitions ELSE <<>>]
    /\ value = InitialValue
    /\ limit \in 0..MaxLimit
    /\ stack = <<>>
    /\ obj = NoTransition
    /\ last = NoCall
    /\ result = NoResult
    /\ invoked = <<>>

CountingStep == RunLeaf \/ RunNested \/ LookupFound \/ LookupNone \/ Apply

NextCounting ==
    \/ \E m \in Machines : EventsRead(m)
    \/ \E m \in Machines : RunCall(m)
    \/ RunLeaf
    \/ RunNested
    \/ LookupFound
    \/ LookupNone
    \/ Apply

\* A run in progress keeps executing: the interpreter does not stop.
SpecCounting == InitCounting /\ [][NextCounting]_vars /\ WF_vars(CountingStep)

\* ------------------------------------------- machines without transitions

\* Machines as test_events builds them: a start state and no transition.
\* Every leaf state is tried as start state, and outer_fsm is also started
\* on counting_fsm.
InitBare ==
    /\ start_state \in {f \in [Machines -> State] :
                            /\ f["counting_fsm"] \in Leaf
                            /\ f["outer_fsm"] \in Leaf \cup {"counting_fsm"}}
    /\ transitions = [m \in Machines |-> <<>>]
    /\ value = InitialValue
    /\ limit \in 0..MaxSpecLimit
    /\ stack = <<>>
    /\ obj = NoTransition
    /\ last = NoCall
    /\ result = NoResult
    /\ invoked = <<>>

NextBare ==
    \/ \E m \in Machines : AddOther(m)
    \/ \E m \in Machines : EventsRead(m)
    \/ \E m \in Machines : RunCall(m)
    \/ RunLeaf
    \/ RunNested
    \/ LookupNone

SpecBare == InitBare /\ [][NextBare]_vars

\* ------------------------------------------- a Transition on its own

\* The values tried as current_state and next_state of the constructor.
CtorStates == State \cup {"None", "2"}

\* The values tried as event.
CtorEvents == {"started", "ended", "None", "2"}

\* The values tried as update.
CtorUpdates == {"None", "2", "update", "lambda2", "end_state"}

\* As Init, after counting.run() was called once: counting.value is 1.
InitTransition ==
    /\ start_state = [m \in Machines |-> IF m = "counting_fsm" THEN "counting"
                                         ELSE "counting_fsm"]
    /\ transitions = [m \in Machines |-> <<>>]
    /\ value = [InitialValue EXCEPT !["counting"] = 1]
    /\ limit = MaxLimit
    /\ stack = <<>>
    /\ obj = NoTransition
    /\ last = NoCall
    /\ result = NoResult
    /\ invoked = <<>>

\* The client evaluates Transition(current_state, event, next_state, update)
\* and binds the result to a fresh name.
Construct ==
    /\ obj = NoTransition
    /\ \E cs \in CtorStates, ev \in CtorEvents, ns \in CtorStates, upd \in CtorUpdates :
         LET made == TransitionInit(cs, ev, ns, upd)
         IN  /\ obj' = made.self
             /\ last' = Call("Transition", "None", <<cs, ev, ns, upd>>, <<>>,
                             made.raised, value)
    /\ UNCHANGED <<start_state, transitions, value, limit, stack, result, invoked>>

\* The client calls obj.match(s, e).
Match ==
    /\ obj # NoTransition
    /\ \E s \in State \cup {"None"}, e \in CtorEvents :
         last' = Call("match", "None", <<s, e>>,
                      <<IF match(obj, s, e) THEN "True" ELSE "False">>, "None", value)
    /\ UNCHANGED <<start_state, transitions, value, limit, stack, obj, result, invoked>>

\* The client calls obj.apply().
ApplyCall ==
    /\ obj # NoTransition
    /\ LET r == apply(obj, value)
       IN  /\ value' = r.value
           /\ invoked' = r.calls
           /\ last' = Call("apply", "None", <<>>,
                           IF r.raised = "None" THEN <<obj.next_state>> ELSE <<>>,
                           r.raised, value)
    /\ UNCHANGED <<start_state, transitions, limit, stack, obj, result>>

NextTransition == Construct \/ Match \/ ApplyCall

SpecTransition == InitTransition /\ [][NextTransition]_vars

\* ------------------------------------------------------------ properties

\* The tokens of a tuple of events.
Tok(v) == {v[i] : i \in 1..Len(v)}

\* C7: Transition.match(s, e) is true if and only if s is the very instance
\* that is the transition's current_state and e equals its event; it is
\* false for the right state with another event, for another state with the
\* right event, and for a distinct instance that has the name and the class
\* of current_state.
C7_MatchIsIdentityAndEvent ==
    last.op = "match" =>
        LET s == last.args[1]
            e == last.args[2]
        IN  /\ last.val \in {<<"True">>, <<"False">>}
            /\ last.val = <<"True">> <=> (s = obj.current_state /\ e = obj.event)
            /\ (s = obj.current_state /\ e # obj.event) => last.val = <<"False">>
            /\ (s # obj.current_state /\ e = obj.event) => last.val = <<"False">>
            /\ ( /\ s \in State
                 /\ s # obj.current_state
                 /\ NameOf(s) = NameOf(obj.current_state)
                 /\ ClassOf(s) = ClassOf(obj.current_state) ) => last.val = <<"False">>

\* match was asked about a second StartState instance with the right event.
C7_Witness ==
    /\ last.op = "match"
    /\ obj.current_state = "start_state"
    /\ last.args = <<"start_state2", obj.event>>
    /\ last.val = <<"False">>

\* C9: constructing a Transition raises TypeError when current_state is not
\* a State, when next_state is not a State, or when update is present and
\* not callable, and then no transition object results; it succeeds, with
\* the arguments as the object's attributes, for every (State, event, State)
\* whose update is absent or callable, whatever the event is.
C9_ConstructorChecks ==
    last.op = "Transition" =>
        LET cs == last.args[1]
            ev == last.args[2]
            ns == last.args[3]
            upd == last.args[4]
            bad == \/ cs \notin State
                   \/ ns \notin State
                   \/ (upd # "None" /\ upd \notin Callables)
        IN  /\ bad => (last.raised = "TypeError" /\ obj = NoTransition)
            /\ ~bad => /\ last.raised = "None"
                       /\ obj # NoTransition
                       /\ obj.current_state = cs
                       /\ obj.event = ev
                       /\ obj.next_state = ns
                       /\ obj.update = upd

\* The constructor was given two states and the integer 2 as update.
C9_Witness ==
    /\ last.op = "Transition"
    /\ last.args[1] \in State
    /\ last.args[3] \in State
    /\ last.args[4] = "2"
    /\ last.raised = "TypeError"
    /\ obj = NoTransition

\* C10 as stated: constructing a Transition fails whenever update is present
\* and cannot be invoked with exactly three positional arguments.
C10_ArityCheckedAtConstruction ==
    ( /\ last.op = "Transition"
      /\ last.args[4] # "None"
      /\ ~(callable(last.args[4]) /\ Arity(last.args[4]) = 3) )
    => last.raised = "TypeError"

\* C10, amended: construction fails when update is present and not callable;
\* a callable update is accepted whatever its arity, and one that does not
\* take three positional arguments fails only when apply() is called, with a
\* TypeError and no change of the state data.
C10_ArityFailsAtApply ==
    /\ ( /\ last.op = "Transition"
         /\ last.args[1] \in State
         /\ last.args[3] \in State )
       => /\ last.raised = "TypeError" <=>
                (last.args[4] # "None" /\ ~callable(last.args[4]))
          /\ callable(last.args[4]) => obj.update = last.args[4]
    /\ last.op = "apply"
       => /\ last.raised = "TypeError" <=>
                (obj.update # "None" /\ Arity(obj.update) # 3)
          /\ last.raised = "TypeError" => (value = last.pre /\ last.val = <<>>)

\* apply() was called on a transition whose update takes two parameters.
C10_Witness ==
    /\ last.op = "apply"
    /\ obj.update = "lambda2"
    /\ last.raised = "TypeError"

\* The positions in the transition list ts of the transitions from state s
\* on event e.
Positions(ts, s, e) ==
    {i \in 1..Len(ts) : ts[i].current_state = s /\ ts[i].event = e}

\* The least element of a non-empty set of numbers.
Least(S) == CHOOSE i \in S : \A j \in S : i <= j

\* The states machine m mentions: its start_state and the current_state and
\* next_state of each of its transitions.
Mentioned(m) ==
    {s \in State : \/ s = start_state[m]
                   \/ \E i \in 1..Len(transitions[m]) :
                        \/ transitions[m][i].current_state = s
                        \/ transitions[m][i].next_state = s}

\* A set as a sequence, in some fixed order.
RECURSIVE SetToSeq(_)
SetToSeq(S) ==
    IF S = {} THEN <<>>
    ELSE LET x == CHOOSE y \in S : TRUE IN <<x>> \o SetToSeq(S \ {x})

\* The events of machine m in the present state, for one iteration order.
EventsNow(m) ==
    events(m, start_state, transitions,
           [k \in Machines |-> SetToSeq(StatesOf(start_state[k], transitions[k]))])

\* The tokens state s declares; a machine declares its derived events.
DeclaredTokens(s) ==
    IF s \in Leaf THEN Tok(LeafEvents(s)) ELSE Tok(EventsNow(s))

\* The tokens declared by a state of S that no transition of m consumes.
Unconsumed(m, S) ==
    {e \in Tokens : \E s \in S : /\ e \in DeclaredTokens(s)
                                 /\ Positions(transitions[m], s, e) = {}}

\* C1: run() starts at start_state and repeats: run the current state, look
\* up the first transition matching (current state, emitted event), apply it
\* and move to its next_state. It returns an event e if and only if e was
\* just emitted by the current state s and no transition of the machine
\* matches (s, e); an emitted pair that has a matching transition is never
\* returned: its first transition is taken.
C1_RunLoop ==
    [][ /\ Len(stack') = Len(stack) + 1 =>
            /\ stack'[Len(stack')].current_state = start_state[stack'[Len(stack')].self]
            /\ stack'[Len(stack')].pc = "L162"
        /\ (stack # <<>> /\ Top.pc = "L162" /\ Len(stack') = Len(stack)) =>
            /\ stack'[Len(stack)].pc = "L163"
            /\ stack'[Len(stack)].current_state = Top.current_state
        /\ (stack # <<>> /\ Top.pc = "L163") =>
            LET hits == Positions(transitions[Top.self], Top.current_state, Top.event)
            IN  IF hits = {}
                THEN /\ Len(stack') = Len(stack) - 1
                     /\ IF Len(stack) = 1
                        THEN last' = [last EXCEPT !.val = <<Top.event>>]
                        ELSE stack'[Len(stack')].event = Top.event
                ELSE /\ Len(stack') = Len(stack)
                     /\ stack'[Len(stack)].pc = "L166"
                     /\ stack'[Len(stack)].transition = transitions[Top.self][Least(hits)]
        /\ (stack # <<>> /\ Top.pc = "L166" /\ stack' # <<>>) =>
            /\ Len(stack') = Len(stack)
            /\ stack'[Len(stack)].current_state = Top.transition.next_state
            /\ stack'[Len(stack)].pc = "L162"
        /\ (stack # <<>> /\ Len(stack') < Len(stack) /\ last'.raised = "None") =>
            /\ Top.pc = "L163"
            /\ Positions(transitions[Top.self], Top.current_state, Top.event) = {}
        /\ (last'.op = "run" /\ last'.val # last.val /\ last'.val # <<>>) =>
            /\ stack # <<>>
            /\ stack' = <<>>
            /\ last'.val = <<Top.event>>
      ]_vars

\* A run of counting_fsm went twice round its loop and returned 'over'.
C1_Witness ==
    /\ stack = <<>>
    /\ last.op = "run"
    /\ last.self = "counting_fsm"
    /\ last.val = <<"over">>
    /\ last.pre["counting"] = 0
    /\ value["counting"] = 2

\* C6: when several transitions with the same (state, event) have been
\* added, transition(state, event) returns the one added first, also after
\* a later add of another transition for the same pair, and a run applies a
\* transition only if no transition added before it matches the same pair.
C6_FirstAddedWins ==
    /\ \A m \in Machines, s \in State, e \in Tokens :
          LET hits == Positions(transitions[m], s, e)
          IN  transition(transitions[m], s, e) =
                 IF hits = {} THEN NoTransition ELSE transitions[m][Least(hits)]
    /\ (last.op = "add" /\ last.raised = "None" /\ Len(last.args) = 4) =>
          LET ts == transitions[last.self]
              earlier == Positions(SubSeq(ts, 1, Len(ts) - 1), last.args[1], last.args[2])
          IN  /\ ts[Len(ts)] = Transition(last.args[1], last.args[2], last.args[3], last.args[4])
              /\ earlier # {} =>
                    transition(ts, last.args[1], last.args[2]) = ts[Least(earlier)]
    /\ \A k \in 1..Len(stack) :
          stack[k].pc = "L166" =>
             LET ts == transitions[stack[k].self]
                 hits == Positions(ts, stack[k].current_state, stack[k].event)
             IN  /\ hits # {}
                 /\ stack[k].transition = ts[Least(hits)]

\* A run is about to apply the first of two transitions from
\* (counting, 'counted') that lead to different states.
C6_Witness ==
    /\ stack # <<>>
    /\ Top.pc = "L166"
    /\ \E i, j \in Positions(transitions[Top.self], Top.current_state, Top.event) :
          /\ i < j
          /\ transitions[Top.self][i].next_state # transitions[Top.self][j].next_state
          /\ Top.transition = transitions[Top.self][i]

\* C3: a machine's events contains a token e contributed by state s if and
\* only if s is the start_state or the current_state or next_state of some
\* transition of the machine, e is in s.events, and transition(s, e) is
\* None. For the counting machine this yields exactly ('over',).
C3_EventsAreUnmatchedDeclared ==
    last.op = "events" =>
        /\ \A e \in Tokens :
              e \in Tok(last.val) <=>
                 \E s \in Mentioned(last.self) :
                    /\ e \in DeclaredTokens(s)
                    /\ transition(transitions[last.self], s, e) = NoTransition
        /\ ( /\ last.self = "counting_fsm"
             /\ start_state["counting_fsm"] = "counting"
             /\ transitions["counting_fsm"] = CountingTransitions )
           => last.val = <<"over">>

\* The events of the counting machine were read.
C3_Witness ==
    /\ start_state["counting_fsm"] = "counting"
    /\ transitions["counting_fsm"] = CountingTransitions
    /\ last.op = "events"
    /\ last.self = "counting_fsm"
    /\ last.val = <<"over">>

\* C4 as stated: a machine's events are exactly the unconsumed events of the
\* states reachable from start_state through its transitions; no event of an
\* unreachable state appears.
C4_EventsOfReachableStatesOnly ==
    last.op = "events" =>
        Tok(last.val) = Unconsumed(last.self,
                            ReachableStates(start_state[last.self], transitions[last.self]))

\* C4, amended: a machine's events are exactly the unconsumed events of the
\* states it mentions (start_state and the current_state and next_state of
\* every transition), reachable from start_state or not. Every reachable
\* state is mentioned, so the unconsumed events of the reachable states are
\* always among the machine's events.
C4_EventsOfMentionedStates ==
    last.op = "events" =>
        LET reachable == ReachableStates(start_state[last.self], transitions[last.self])
        IN  /\ Tok(last.val) = Unconsumed(last.self, Mentioned(last.self))
            /\ reachable \subseteq Mentioned(last.self)
            /\ Unconsumed(last.self, reachable) \subseteq Tok(last.val)

\* counting_fsm starts at start_state, which no transition leaves, and holds
\* a transition from limiting, whose 'over' is among the events read.
C4_Witness ==
    /\ start_state["counting_fsm"] = "start_state"
    /\ ReachableStates("start_state", transitions["counting_fsm"]) = {"start_state"}
    /\ "limiting" \in Mentioned("counting_fsm")
    /\ last.op = "events"
    /\ last.self = "counting_fsm"
    /\ "over" \in Tok(last.val)

\* C5: every value returned by a machine's run() is a member of that
\* machine's events as computed on the same transition list, at every level
\* of nesting: the event a nested machine hands to the run that called it,
\* and the event returned to the client.
C5_RunReturnsOneOfEvents ==
    /\ \A k \in 1..Len(stack) :
          (stack[k].pc = "L163" /\ stack[k].current_state \in Machines) =>
             stack[k].event \in Tok(EventsNow(stack[k].current_state))
    /\ \A k \in 1..Len(stack) :
          (stack[k].pc = "L163" /\ stack[k].current_state \in Leaf) =>
             stack[k].event \in Tok(LeafEvents(stack[k].current_state))
    /\ (stack = <<>> /\ last.op = "run" /\ last.val # <<>>) =>
          last.val[1] \in Tok(EventsNow(last.self))

\* outer_fsm has just been handed 'over' by counting_fsm, whose run went
\* through counting and limiting.
C5_Witness ==
    /\ Len(stack) = 1
    /\ stack[1].self = "outer_fsm"
    /\ stack[1].pc = "L163"
    /\ stack[1].current_state = "counting_fsm"
    /\ stack[1].event = "over"

\* C8: when a machine is run as a state of an enclosing machine, its whole
\* loop executes first: while the inner run is in progress the frames of the
\* enclosing runs do not change (no state run, no lookup, no update there),
\* the inner run ends only on a pair without a transition, and the enclosing
\* run is then at its lookup with the one event returned, a lookup it does
\* once before it applies a transition or returns.
C8_NestedRunCompletesFirst ==
    [][ /\ (stack # <<>> /\ stack' # <<>>) =>
            \A k \in 1..Len(stack) :
               (k < Len(stack) /\ k < Len(stack')) => stack'[k] = stack[k]
        /\ Len(stack') = Len(stack) + 1 /\ stack # <<>> =>
            /\ Top.pc = "L162"
            /\ Top.current_state \in Machines
            /\ stack'[Len(stack)] = Top
            /\ stack'[Len(stack')].self = Top.current_state
        /\ (Len(stack) >= 2 /\ Len(stack') = Len(stack) - 1) =>
            /\ Top.pc = "L163"
            /\ Positions(transitions[Top.self], Top.current_state, Top.event) = {}
            /\ stack'[Len(stack')] =
                  [stack[Len(stack')] EXCEPT !.event = Top.event, !.pc = "L163"]
        /\ (Len(stack) >= 2 /\ Len(stack') < Len(stack) - 1) =>
            /\ stack' = <<>>
            /\ last'.raised # "None"
        /\ (stack # <<>> /\ Top.pc = "L163" /\ Top.current_state \in Machines) =>
            \/ Len(stack') = Len(stack) - 1
            \/ /\ Len(stack') = Len(stack)
               /\ stack'[Len(stack)].pc = "L166"
               /\ stack'[Len(stack)].event = Top.event
        /\ (Len(stack) >= 2 /\ Len(stack') >= 2) =>
            \A s \in State :
               value'[s] # value[s] =>
                  \/ Top.pc = "L162" /\ Top.current_state = s
                  \/ Top.pc = "L166" /\ Top.transition.next_state = s
      ]_vars

\* The run of counting_fsm inside outer_fsm has gone round its loop, and
\* outer_fsm has looked up the event it returned and found a transition.
C8_Witness ==
    /\ Len(stack) = 1
    /\ stack[1].self = "outer_fsm"
    /\ stack[1].current_state = "counting_fsm"
    /\ stack[1].pc = "L166"
    /\ stack[1].event = "over"
    /\ value["limiting"] >= 1

\* C2: for the counting machine with A's counter starting at 0, for every
\* limit, run() terminates and returns 'over', and the counter is then
\* limit + 1 (11 for limit 10).
C2_CountingRunReturnsOver ==
    /\ []( (stack = <<>> /\ last.op = "run" /\ last.pre["counting"] = 0) =>
             (last.val = <<"over">> /\ last.raised = "None"
              /\ value["counting"] = limit + 1) )
    /\ (stack # <<>>) ~> (stack = <<>> /\ last.op = "run" /\ last.val = <<"over">>)

\* The run of the counting machine with limit 10 has returned.
C2_Witness ==
    /\ stack = <<>>
    /\ last.op = "run"
    /\ last.self = "counting_fsm"
    /\ last.pre["counting"] = 0
    /\ last.val = <<"over">>
    /\ limit = 10
    /\ value["counting"] = 11

\* C11: add(x) with an x that is no Transition raises TypeError and leaves
\* the transition list as it was; with a Transition it appends x as the last
\* element and keeps the earlier transitions in their order, and it does so
\* as well when an equal transition is already in the list.
C11_AddAppendsOrRaises ==
    [][ (transitions' # transitions \/ (last'.op = "add" /\ last' # last)) =>
          LET m == last'.self
              a == last'.args
              old == transitions[m]
              new == transitions'[m]
          IN  /\ last'.op = "add"
              /\ \A k \in Machines \ {m} : transitions'[k] = transitions[k]
              /\ IF Len(a) = 4
                 THEN /\ last'.raised = "None"
                      /\ Len(new) = Len(old) + 1
                      /\ new[Len(new)] = Transition(a[1], a[2], a[3], a[4])
                      /\ \A i \in 1..Len(old) : new[i] = old[i]
                 ELSE /\ ClassOf(a[1]) # "Transition"
                      /\ last'.raised = "TypeError"
                      /\ new = old
      ]_vars

\* The same transition has been added twice to a machine and is in its list
\* at both positions.
C11_Witness ==
    /\ last.op = "add"
    /\ last.raised = "None"
    /\ Len(transitions[last.self]) = 2
    /\ transitions[last.self][1] = transitions[last.self][2]
    /\ transitions[last.self][2] =
           Transition(last.args[1], last.args[2], last.args[3], last.args[4])

\* C12: a machine with no transition has as events the events of its start
\* state, as a sequence in the same order; its run() runs the start state
\* once, consults the empty list once and returns the event of that state.
C12_NoTransitions ==
    /\ []( (last.op = "events" /\ transitions[last.self] = <<>>) =>
             LET s == start_state[last.self]
             IN  IF s \in Leaf THEN last.val = LeafEvents(s)
                 ELSE last.val \in EventsResults(s, start_state, transitions) )
    /\ []( \A k \in 1..Len(stack) :
             transitions[stack[k].self] = <<>> =>
                /\ stack[k].current_state = start_state[stack[k].self]
                /\ stack[k].pc \in {"L162", "L163"}
                /\ stack[k].pc = "L162" => stack[k].event = "None" )
    /\ []( ( /\ stack = <<>>
             /\ last.op = "run"
             /\ last.val # <<>>
             /\ transitions[last.self] = <<>> ) =>
             LET s == start_state[last.self]
             IN  /\ result = [self |-> last.self, state |-> s, val |-> last.val[1]]
                 /\ s \in Leaf =>
                      /\ last.val[1] \in Tok(LeafEvents(s))
                      /\ value = IF ClassOf(s) = "CountingState"
                                 THEN [last.pre EXCEPT ![s] = @ + 1]
                                 ELSE last.pre )
    /\ [][ ( /\ stack # <<>>
             /\ transitions[Top.self] = <<>>
             /\ Top.pc = "L163" ) =>
             /\ Len(stack') = Len(stack) - 1
             /\ Len(stack) = 1 => last'.val = <<Top.event>>
             /\ Len(stack) = 2 => /\ stack'[1].event = Top.event
                                  /\ stack'[1].pc = "L163"
      ]_vars

\* The events of a machine whose only state is a LimitingState were read.
C12_Witness ==
    /\ last.op = "events"
    /\ transitions[last.self] = <<>>
    /\ start_state[last.self] = "limiting"
    /\ last.val = <<"over", "under">>
    /\ result.self = last.self
    /\ result.val = "under"

\* C13: a transition added after a run() returned is consulted by later
\* runs. When the last run that returned stopped in machine m on the pair
\* (s, e), it did so because m had no transition for the pair; a transition
\* for (s, e) in m's list was therefore added afterwards, and a run of m that
\* then emits (s, e) does not return there: it takes the first such
\* transition and moves to its next_state. An add changes neither the value
\* the earlier run returned nor any state data.
C13_LateAddIsConsulted ==
    /\ []( (stack = <<>> /\ last.op = "run" /\ last.val # <<>>) =>
             /\ result.self = last.self
             /\ result.val = last.val[1]
             /\ Positions(transitions[result.self], result.state, result.val) = {} )
    /\ [][ (last'.op = "add" /\ (last' # last \/ transitions' # transitions)) =>
             /\ result' = result
             /\ value' = value
             /\ Len(last'.args) = 4 =>
                  Positions(transitions'[last'.self], last'.args[1], last'.args[2]) # {}
      ]_vars
    /\ [][ ( /\ stack # <<>>
             /\ Top.self = result.self
             /\ Top.current_state = result.state
             /\ Top.event = result.val
             /\ Positions(transitions[Top.self], result.state, result.val) # {} ) =>
             LET ts == transitions[Top.self]
                 t == ts[Least(Positions(ts, result.state, result.val))]
                 now == stack'[Len(stack)]
             IN  /\ Top.pc = "L163" =>
                      /\ Len(stack') = Len(stack)
                      /\ now.pc = "L166"
                      /\ now.transition = t
                 /\ Top.pc = "L166" =>
                      /\ Top.transition = t
                      /\ \/ stack' = <<>> /\ last'.raised # "None"
                         \/ /\ Len(stack') = Len(stack)
                            /\ now.pc = "L162"
                            /\ now.current_state = t.next_state
      ]_vars

\* A run stopped on (counting, 'counted'); a transition from that pair was
\* then added behind another transition, and the next run has taken it.
C13_Witness ==
    /\ stack # <<>>
    /\ Top.self = result.self
    /\ result.state = "counting"
    /\ result.val = "counted"
    /\ Top.pc = "L162"
    /\ Top.current_state = "limiting"
    /\ Len(transitions[Top.self]) = 2
    /\ Top.transition = transitions[Top.self][2]
    /\ Top.transition.current_state = result.state
    /\ Top.transition.event = result.val

\* The number of occurrences of e in the tuple v.
Count(v, e) == Cardinality({i \in 1..Len(v) : v[i] = e})

\* C14: two accesses of a machine's events in a row, with no add between
\* them, return equal collections: every token occurs as often in the one
\* as in the other, though each access computes the tuple anew.
C14_EventsReadTwice ==
    [][ ( /\ last.op = "events"
          /\ last'.op = "events"
          /\ last'.self = last.self ) =>
          /\ transitions' = transitions
          /\ \A e \in Tokens : Count(last'.val, e) = Count(last.val, e)
      ]_vars

\* An access returned at least two tokens, in another order than the one
\* the set of states is iterated in by EventsNow.
C14_Witness ==
    /\ last.op = "events"
    /\ Len(last.val) >= 2
    /\ last.val # EventsNow(last.self)
    /\ \A e \in Tokens : Count(last.val, e) = Count(EventsNow(last.self), e)

\* C15: applying a transition whose update is None changes no data of any
\* state, its source and its destination included: the data of the state
\* entered is, as its run is about to be invoked, what it was as the
\* transition was about to be taken.
C15_NoUpdateNoChange ==
    [][ ( /\ stack # <<>>
          /\ Top.pc = "L166"
          /\ Top.transition.update = "None" ) =>
          /\ value' = value
          /\ Len(stack') = Len(stack)
          /\ stack'[Len(stack)].pc = "L162"
          /\ stack'[Len(stack)].current_state = Top.transition.next_state
      ]_vars

\* The transition (limiting, 'under') -> counting, which has no update, has
\* been applied, and counting, whose counter is 1 or more, is about to run.
C15_Witness ==
    /\ stack # <<>>
    /\ Top.pc = "L162"
    /\ Top.transition # NoTransition
    /\ Top.transition.update = "None"
    /\ Top.transition.current_state = "limiting"
    /\ Top.current_state = "counting"
    /\ value["counting"] >= 1

\* C16: within run(), the update of every transition taken is invoked once,
\* with (current_state, event, next_state), after the run of the source state
\* returned the event and before the destination state runs; a transition
\* without update invokes nothing, and no other step of the program invokes
\* an update, so the update of a transition that was not selected is never
\* called. The update of the counting machine copies A's counter to B:
\* whenever B is about to run, its value is A's counter.
C16_UpdateOncePerTransitionTaken ==
    /\ [][ IF stack # <<>> /\ Top.pc = "L166"
           THEN LET t == Top.transition
                    ts == transitions[Top.self]
                IN  /\ Top.event # "None"
                    /\ t = ts[Least(Positions(ts, Top.current_state, Top.event))]
                    /\ invoked' = IF t.update = "None" THEN <<>>
                                  ELSE <<<<Top.current_state, Top.event, t.next_state>>>>
                    /\ (t.update = "update" /\ stack' # <<>>) =>
                          /\ value' = [value EXCEPT ![t.next_state] =
                                                    value[Top.current_state]]
                          /\ stack'[Len(stack)].pc = "L162"
                          /\ stack'[Len(stack)].current_state = t.next_state
           ELSE invoked' = invoked
      ]_vars
    /\ []( ( /\ stack # <<>>
             /\ Top.pc = "L162"
             /\ Top.current_state = "limiting" ) =>
             /\ invoked = <<<<"counting", "counted", "limiting">>>>
             /\ value["limiting"] = value["counting"] )

\* The counting machine is in its second round: update has just been called
\* with (counting, 'counted', limiting) and limiting is about to run.
C16_Witness ==
    /\ stack # <<>>
    /\ Top.pc = "L162"
    /\ Top.current_state = "limiting"
    /\ invoked = <<<<"counting", "counted", "limiting">>>>
    /\ value["limiting"] = 2
    /\ value["counting"] = 2

\* Every pair (state, event) a run of machine m can emit has a transition:
\* all events declared by the states reachable from m's start_state are
\* consumed.
Closed(m) ==
    \A s \in ReachableStates(start_state[m], transitions[m]) :
        \A e \in DeclaredTokens(s) : Positions(transitions[m], s, e) # {}

\* C17: run() has no step limit. While every pair the machine can emit has
\* a matching transition, a run in progress takes a next step and does not
\* return, however many steps it has taken. Conversely a run returns only
\* at a lookup that finds no transition for the pair just emitted, and then
\* it returns at once.
C17_RunsUntilUnmatched ==
    /\ []( \A k \in 1..Len(stack) : Closed(stack[k].self) => ENABLED RunStep )
    /\ [][ \A k \in 1..Len(stack) :
             Closed(stack[k].self) => (Len(stack') >= k \/ last'.raised # "None")
      ]_vars
    /\ [][ stack # <<>> =>
             LET unmatched == /\ Top.pc = "L163"
                              /\ Positions(transitions[Top.self],
                                           Top.current_state, Top.event) = {}
             IN  /\ (Len(stack') < Len(stack) /\ last'.raised = "None") => unmatched
                 /\ unmatched => Len(stack') = Len(stack) - 1
      ]_vars

\* A machine whose only state loops to itself is running: the state has run,
\* its transition was applied, and it has run again.
C17_Witness ==
    /\ stack # <<>>
    /\ Closed(stack[1].self)
    /\ Top.pc = "L163"
    /\ Top.transition # NoTransition
    /\ Top.transition.next_state = Top.current_state
    /\ Top.event = Top.transition.event

\* The events state s declares, as a tuple; a machine declares its derived
\* events.
Declared(s) == IF s \in Leaf THEN LeafEvents(s) ELSE EventsNow(s)

\* The pairs of a state machine m mentions and a position at which that
\* state declares e, for the states from which no transition of m consumes e.
Occurrences(m, e) ==
    UNION { LET d == Declared(s)
            IN  {<<s, i>> : i \in {j \in 1..Len(d) : d[j] = e}} :
                s \in {x \in Mentioned(m) : Positions(transitions[m], x, e) = {}} }

\* C18: in computing events each state instance is processed once, however
\* often it appears as start_state, current_state or next_state, and tokens
\* are not deduplicated across states: a token occurs in events as many
\* times as there are pairs of a state and a declared occurrence of the
\* token in it that no transition consumes; two unconsumed states that
\* declare the same token yield it twice.
C18_EventsMultiplicity ==
    last.op = "events" =>
        \A e \in Tokens :
            Count(last.val, e) = Cardinality(Occurrences(last.self, e))

\* Two StartState instances, both mentioned and neither consumed: 'started'
\* is in events twice.
C18_Witness ==
    /\ last.op = "events"
    /\ Count(last.val, "started") = 2
    /\ {"start_state", "start_state2"} \subseteq Mentioned(last.self)

\* C19: events is never stale. An access that follows an add reflects the
\* transition just added, to the machine itself or to a machine nested in
\* it. After add of (s, e) -> s' the next events of that machine holds no
\* occurrence of e contributed by s, and holds every event s' declares that
\* no transition consumes; after an add to the nested machine N the next
\* events of the enclosing machine is made of N's events as they are now.
C19_EventsNeverStale ==
    [][ ( /\ last.op = "add"
          /\ last.raised = "None"
          /\ last'.op = "events" ) =>
          LET m == last'.self
              s == last.args[1]
              e == last.args[2]
              next == last.args[3]
          IN  /\ \A x \in Tokens :
                    Count(last'.val, x) = Cardinality(Occurrences(m, x))
              /\ last.self = m =>
                    /\ \A p \in Occurrences(m, e) : p[1] # s
                    /\ \A x \in DeclaredTokens(next) :
                          Positions(transitions[m], next, x) = {}
                             => x \in Tok(last'.val)
              /\ (last.self # m /\ last.self \in Mentioned(m)) =>
                    LET inner == EventsNow(last.self)
                    IN  \A x \in Tokens :
                          Positions(transitions[m], last.self, x) = {}
                             => Count(last'.val, x) >= Count(inner, x)
      ]_vars

\* counting_fsm, nested in outer_fsm, has the transition from
\* (counting, 'counted') to limiting; the events of outer_fsm hold the
\* events of limiting and not 'counted'.
C19_Witness ==
    /\ last.op = "events"
    /\ last.self = "outer_fsm"
    /\ start_state["counting_fsm"] = "counting"
    /\ Len(transitions["counting_fsm"]) = 1
    /\ transitions["counting_fsm"][1].next_state = "limiting"
    /\ Tok(last.val) = {"over", "under"}

\* C20: every run() begins at start_state with the state data as the
\* previous calls left it. A run of the counting machine made after a run
\* returned 'over' with the counter at limit + 1 runs A once more and
\* returns 'over' with the counter at limit + 2. Reading events, between
\* runs or at any other time, runs no state, invokes no update and changes
\* neither the state data nor the transition lists.
C20_RunsRestartDataKept ==
    /\ [][ (stack = <<>> /\ stack' # <<>>) =>
             /\ last'.op = "run"
             /\ last'.pre = value
             /\ value' = value
             /\ stack' = << [self |-> last'.self,
                             current_state |-> start_state[last'.self],
                             event |-> "None",
                             transition |-> NoTransition,
                             pc |-> "L162"] >>
      ]_vars
    /\ []( ( /\ stack = <<>>
             /\ last.op = "run"
             /\ last.pre["counting"] = limit + 1 ) =>
             /\ last.val = <<"over">>
             /\ value["counting"] = limit + 2
             /\ value["limiting"] = limit + 2 )
    /\ [][ (last'.op = "events" /\ last' # last) =>
             /\ stack = <<>>
             /\ stack' = <<>>
             /\ value' = value
             /\ transitions' = transitions
             /\ invoked' = invoked
             /\ result' = result
      ]_vars

\* The counting machine with limit 10 was run a second time, from counter
\* 11, and returned 'over' with the counter at 12.
C20_Witness ==
    /\ stack = <<>>
    /\ last.op = "run"
    /\ last.self = "counting_fsm"
    /\ limit = 10
    /\ last.pre["counting"] = 11
    /\ last.val = <<"over">>
    /\ value["counting"] = 12

====
